---- MODULE Spec2Model ----
(***************************************************************************)
(* Cell and column typing of readxl's xls reader (src/CellType.h).         *)
(*                                                                         *)
(* The functions modelled are pure (cellType also writes to Rcpp::Rcout). *)
(* A behaviour is one call: Init draws the function and its arguments,     *)
(* the function's action computes the result.  isDateFormat, which nothing *)
(* calls, is left out.  Definitions named f_Variant are f with one slip,   *)
(* kept to show what each property tells apart.                            *)
(*                                                                         *)
(* Doubles are modelled by small integers, R objects by records            *)
(* [sexp, data, class, tzone], C++ strings by TLA+ strings.                *)
(***************************************************************************)
EXTENDS Integers, Sequences, FiniteSets, TLC

VARIABLES op, args, pc, ret, Rcout

vars == <<op, args, pc, ret, Rcout>>

(***************************************************************************)
(* Bounds of the model.                                                    *)
(***************************************************************************)
\* format ids range over -NegIds .. MaxFormatId
NegIds == 3
MaxFormatId == 170
\* number of entries of the style table (styles->xf)
NumStyles == 2
\* longest vector of type names given to colTypeStrings
MaxNames == 3
\* most columns given to removeSkippedColumns
MaxCols == 3
\* most rows of a column
MaxN == 2

(***************************************************************************)
(* enum CellType, enum ColType                                             *)
(***************************************************************************)
CELL_BLANK == 0
CELL_DATE == 1
CELL_NUMERIC == 2
CELL_TEXT == 3

COL_BLANK == 0
COL_DATE == 1
COL_NUMERIC == 2
COL_TEXT == 3
COL_LIST == 4
COL_SKIP == 5

ColTypes == {COL_BLANK, COL_DATE, COL_NUMERIC, COL_TEXT, COL_LIST, COL_SKIP}

(***************************************************************************)
(* Formatting of an int by operator<< and by "%i".                         *)
(***************************************************************************)
Digit(n) == <<"0", "1", "2", "3", "4", "5", "6", "7", "8", "9">>[n + 1]

RECURSIVE NatToStr(_)
NatToStr(n) ==
    IF n < 10 THEN Digit(n) ELSE NatToStr(n \div 10) \o Digit(n % 10)

IntToStr(n) == IF n < 0 THEN "-" \o NatToStr(-n) ELSE NatToStr(n)

(***************************************************************************)
(* StringSet (StringSet.h): the NA strings.  A double is looked up by its  *)
(* text.                                                                   *)
(***************************************************************************)
StringSet_contains(na, s) == s \in na

StringSet_containsDouble(na, d) == StringSet_contains(na, IntToStr(d))

(***************************************************************************)
(* isDateTime                                                              *)
(***************************************************************************)
\* isDateTime without the test id < 164
isDateTime_NoBuiltinGuard(id, custom) ==
    IF \/ (id >= 14 /\ id <= 22)
       \/ (id >= 27 /\ id <= 36)
       \/ (id >= 45 /\ id <= 47)
       \/ (id >= 50 /\ id <= 58)
       \/ (id >= 71 /\ id <= 81)
    THEN TRUE
    ELSE Cardinality(custom \cap {id}) > 0

isDateTime(id, custom) ==
    IF \/ (id >= 14 /\ id <= 22)
       \/ (id >= 27 /\ id <= 36)
       \/ (id >= 45 /\ id <= 47)
       \/ (id >= 50 /\ id <= 58)
       \/ (id >= 71 /\ id <= 81)
    THEN TRUE
    ELSE IF id < 164
         THEN FALSE
         ELSE Cardinality(custom \cap {id}) > 0

(***************************************************************************)
(* cellType.  An outcome is [fault, value, out]: whether the read of the   *)
(* style table left the process in undefined behaviour that crashed it,    *)
(* the CellType returned, the text written to Rcpp::Rcout.  cellType gives *)
(* the set of outcomes the call can have.                                  *)
(***************************************************************************)
Returns(v) == [fault |-> FALSE, value |-> v, out |-> ""]

Crash == [fault |-> TRUE, value |-> CELL_BLANK, out |-> ""]

\* case 253, 516
labelCell(cell, na) ==
    {Returns(IF StringSet_contains(na, cell.str) THEN CELL_BLANK ELSE CELL_TEXT)}

\* the formula case typing a numeric result by its style, as a number record
formulaCell_StyleAware(cell, styles, custom, na) ==
    IF cell.l = 0
    THEN IF StringSet_containsDouble(na, cell.d)
         THEN {Returns(CELL_BLANK)}
         ELSE IF ~styles.null /\ cell.xf < Len(styles.xf)
                 /\ isDateTime(styles.xf[cell.xf + 1].format, custom)
              THEN {Returns(CELL_DATE)}
              ELSE {Returns(CELL_NUMERIC)}
    ELSE IF StringSet_contains(na, cell.str)
         THEN {Returns(CELL_BLANK)}
         ELSE {Returns(CELL_TEXT)}

\* case 6, 1030
formulaCell(cell, styles, custom, na) ==
    IF cell.l = 0
    THEN {Returns(IF StringSet_containsDouble(na, cell.d)
                  THEN CELL_BLANK ELSE CELL_NUMERIC)}
    ELSE IF StringSet_contains(na, cell.str)
         THEN {Returns(CELL_BLANK)}
         ELSE {Returns(CELL_TEXT)}

\* the values an out-of-bounds read of styles->xf can give
GarbageFormats == {0, 16}

\* styles->xf[cell.xf].format: the element when cell.xf is an index of the
\* table, and otherwise undefined behaviour: any value, or a crash
xfFormat(styles, xf) ==
    IF xf < Len(styles.xf)
    THEN [crash |-> FALSE, formats |-> {styles.xf[xf + 1].format}]
    ELSE [crash |-> TRUE, formats |-> GarbageFormats]

\* the number case asking the style before the NA strings
numberCell_StyleFirst(cell, styles, custom, na) ==
    IF styles.null
    THEN {Returns(IF StringSet_containsDouble(na, cell.d)
                  THEN CELL_BLANK ELSE CELL_NUMERIC)}
    ELSE LET rd == xfFormat(styles, cell.xf)
         IN  {Returns(IF isDateTime(f, custom)
                      THEN CELL_DATE
                      ELSE IF StringSet_containsDouble(na, cell.d)
                           THEN CELL_BLANK ELSE CELL_NUMERIC) : f \in rd.formats}
             \cup (IF rd.crash THEN {Crash} ELSE {})

\* case 189, 515, 638
numberCell(cell, styles, custom, na) ==
    IF StringSet_containsDouble(na, cell.d)
    THEN {Returns(CELL_BLANK)}
    ELSE IF styles.null
         THEN {Returns(CELL_NUMERIC)}
         ELSE LET rd == xfFormat(styles, cell.xf)
              IN  {Returns(IF isDateTime(f, custom)
                           THEN CELL_DATE ELSE CELL_NUMERIC) : f \in rd.formats}
                  \cup (IF rd.crash THEN {Crash} ELSE {})

\* the blank case treated as a label
blankCell_NaAware(cell, na) ==
    {Returns(IF StringSet_contains(na, cell.str) THEN CELL_BLANK ELSE CELL_TEXT)}

\* case 190, 513
blankCell(cell, na) == {Returns(CELL_BLANK)}

\* the default case without its message
unknownCell_Silent(cell) == {Returns(CELL_NUMERIC)}

\* default
unknownCell(cell) ==
    {[fault |-> FALSE, value |-> CELL_NUMERIC,
      out |-> "Unknown type: " \o IntToStr(cell.id) \o "\n"]}

cellType(cell, styles, customDateFormats, na) ==
    CASE cell.id \in {253, 516} -> labelCell(cell, na)
      [] cell.id \in {6, 1030} -> formulaCell(cell, styles, customDateFormats, na)
      [] cell.id \in {189, 515, 638} ->
             numberCell(cell, styles, customDateFormats, na)
      [] cell.id \in {190, 513} -> blankCell(cell, na)
      [] OTHER -> unknownCell(cell)

(***************************************************************************)
(* colTypeStrings, colTypeDesc                                             *)
(***************************************************************************)
\* the if-chain of the loop body: the type pushed, or none
matchColType(type) ==
    IF type = "blank" THEN <<COL_BLANK>>
    ELSE IF type = "date" THEN <<COL_DATE>>
    ELSE IF type = "numeric" THEN <<COL_NUMERIC>>
    ELSE IF type = "text" THEN <<COL_TEXT>>
    ELSE IF type = "list" THEN <<COL_LIST>>
    ELSE IF type = "skip" THEN <<COL_SKIP>>
    ELSE <<>>

\* the error with the 0-based index
stopUnknownType_ZeroBased(type, i) ==
    [threw |-> TRUE,
     what |-> "Unknown type '" \o type \o "' at position " \o IntToStr(i)]

\* Rcpp::stop("Unknown type '%s' at position %i", type, i + 1)
stopUnknownType(type, i) ==
    [threw |-> TRUE,
     what |-> "Unknown type '" \o type \o "' at position " \o IntToStr(i + 1)]

RECURSIVE colTypeStringsLoop(_, _, _)
colTypeStringsLoop(x, i, types) ==
    IF i < Len(x)
    THEN LET type == x[i + 1]
             m == matchColType(type)
         IN  IF m # <<>>
             THEN colTypeStringsLoop(x, i + 1, types \o m)
             ELSE stopUnknownType(type, i)
    ELSE [threw |-> FALSE, types |-> types]

colTypeStrings(x) == colTypeStringsLoop(x, 0, <<>>)

\* colTypeDesc with two of its strings exchanged
colTypeDesc_SwapListSkip(type) ==
    CASE type = COL_BLANK -> "blank"
      [] type = COL_DATE -> "date"
      [] type = COL_NUMERIC -> "numeric"
      [] type = COL_TEXT -> "text"
      [] type = COL_LIST -> "skip"
      [] type = COL_SKIP -> "list"
      [] OTHER -> "???"

colTypeDesc(type) ==
    CASE type = COL_BLANK -> "blank"
      [] type = COL_DATE -> "date"
      [] type = COL_NUMERIC -> "numeric"
      [] type = COL_TEXT -> "text"
      [] type = COL_LIST -> "list"
      [] type = COL_SKIP -> "skip"
      [] OTHER -> "???"

(***************************************************************************)
(* R objects and makeCol                                                   *)
(***************************************************************************)
NA_REAL == "NA_real_"
NA_STRING == "NA_character_"
NA_LOGICAL == "NA"

RObject(sexp, data) ==
    [sexp |-> sexp, data |-> data, class |-> <<>>, tzone |-> <<>>]

R_NilValue == RObject("NILSXP", <<>>)

NumericVector(n, v) == RObject("REALSXP", [i \in 1..n |-> v])

CharacterVector(n, v) == RObject("STRSXP", [i \in 1..n |-> v])

LogicalVector(n, v) == RObject("LGLSXP", [i \in 1..n |-> v])

List(n, v) == RObject("VECSXP", [i \in 1..n |-> v])

\* makeCol without the tzone attribute
makeCol_DateNoTzone(type, n) ==
    CASE type \in {COL_BLANK, COL_SKIP} -> R_NilValue
      [] type = COL_DATE ->
             [NumericVector(n, NA_REAL) EXCEPT !.class = <<"POSIXct", "POSIXt">>]
      [] type = COL_NUMERIC -> NumericVector(n, NA_REAL)
      [] type = COL_TEXT -> CharacterVector(n, NA_STRING)
      [] type = COL_LIST -> List(n, LogicalVector(1, NA_LOGICAL))
      [] OTHER -> R_NilValue

makeCol(type, n) ==
    CASE type \in {COL_BLANK, COL_SKIP} -> R_NilValue
      [] type = COL_DATE ->
             [NumericVector(n, NA_REAL) EXCEPT !.class = <<"POSIXct", "POSIXt">>,
                                               !.tzone = <<"UTC">>]
      [] type = COL_NUMERIC -> NumericVector(n, NA_REAL)
      [] type = COL_TEXT -> CharacterVector(n, NA_STRING)
      [] type = COL_LIST -> List(n, LogicalVector(1, NA_LOGICAL))
      [] OTHER -> R_NilValue

(***************************************************************************)
(* removeSkippedColumns                                                    *)
(***************************************************************************)
\* first loop: p_out after the columns j .. p-1
RECURSIVE countKept(_, _, _, _)
countKept(types, j, p, p_out) ==
    IF j < p
    THEN countKept(types, j + 1, p,
                   IF types[j + 1] # COL_SKIP THEN p_out + 1 ELSE p_out)
    ELSE p_out

\* the second loop with the name taken at the output index
RECURSIVE copyKept_NameAtOut(_, _, _, _, _, _, _)
copyKept_NameAtOut(cols, names, types, j, j_out, out, names_out) ==
    IF j < Len(cols)
    THEN IF types[j + 1] = COL_SKIP
         THEN copyKept_NameAtOut(cols, names, types, j + 1, j_out, out, names_out)
         ELSE copyKept_NameAtOut(cols, names, types, j + 1, j_out + 1,
                                 [out EXCEPT ![j_out + 1] = cols[j + 1]],
                                 [names_out EXCEPT ![j_out + 1] = names[j_out + 1]])
    ELSE [cols |-> out, names |-> names_out]

\* second loop
RECURSIVE copyKept(_, _, _, _, _, _, _)
copyKept(cols, names, types, j, j_out, out, names_out) ==
    IF j < Len(cols)
    THEN IF types[j + 1] = COL_SKIP
         THEN copyKept(cols, names, types, j + 1, j_out, out, names_out)
         ELSE copyKept(cols, names, types, j + 1, j_out + 1,
                       [out EXCEPT ![j_out + 1] = cols[j + 1]],
                       [names_out EXCEPT ![j_out + 1] = names[j + 1]])
    ELSE [cols |-> out, names |-> names_out]

\* removeSkippedColumns dropping nothing
removeSkippedColumns_KeepAll(cols, names, types) ==
    [cols |-> cols, names |-> names]

removeSkippedColumns(cols, names, types) ==
    LET p == Len(cols)
        p_out == countKept(types, 0, p, 0)
    IN  copyKept(cols, names, types, 0, 0,
                 [i \in 1..p_out |-> R_NilValue], [i \in 1..p_out |-> ""])

(***************************************************************************)
(* The arguments a call is made with.                                      *)
(***************************************************************************)
\* the nine record ids cellType knows, and some it does not
KnownIds == {253, 516, 6, 1030, 189, 515, 638, 190, 513}
UnknownIds == {0, 7, 514, 1031}

Doubles == {0, 1, -1}
Strs == {"", "abc"}
NaSets == SUBSET {"", "0", "-1"}

\* xf may be one past the last entry of the style table
Cells ==
    [id : KnownIds \cup UnknownIds, d : Doubles, str : Strs, l : {0, 65535},
     xf : 0..NumStyles]

NULL == [null |-> TRUE, xf |-> <<>>]
StyleFormats == {0, 16, 164}
StyleTables ==
    {NULL} \cup {[null |-> FALSE, xf |-> t] :
                     t \in [1..NumStyles -> [format : StyleFormats]]}

FormatIds == (0 - NegIds)..MaxFormatId
CustomSets == SUBSET {0, 163, 164, 165}

TypeNames ==
    {"blank", "date", "numeric", "text", "list", "skip",
     "blans", "Text", " text", ""}
ColNames == {"a", "b"}

Init_cellType ==
    /\ op = "cellType"
    /\ args \in [cell : Cells, styles : StyleTables,
                 customDateFormats : {{}, {164}}, na : NaSets]

Init_isDateTime ==
    /\ op = "isDateTime"
    /\ args \in [id : FormatIds, custom : CustomSets]

Init_colTypeStrings ==
    /\ op = "colTypeStrings"
    /\ \E len \in 0..MaxNames : args \in [x : [1..len -> TypeNames]]

Init_colTypeDesc ==
    /\ op = "colTypeDesc"
    /\ args \in [type : ColTypes]

Init_makeCol ==
    /\ op = "makeCol"
    /\ args \in [type : ColTypes, n : 0..MaxN]

\* the columns are those makeCol allocated for the types, n rows each
Init_removeSkippedColumns ==
    /\ op = "removeSkippedColumns"
    /\ \E p \in 0..MaxCols, n \in 0..MaxN :
         \E types \in [1..p -> ColTypes], names \in [1..p -> ColNames] :
            args = [cols |-> [j \in 1..p |-> makeCol(types[j], n)],
                    names |-> names, types |-> types, n |-> n]

Init ==
    /\ pc = "call"
    /\ ret = <<>>
    /\ Rcout = ""
    /\ \/ Init_cellType
       \/ Init_isDateTime
       \/ Init_colTypeStrings
       \/ Init_colTypeDesc
       \/ Init_makeCol
       \/ Init_removeSkippedColumns

(***************************************************************************)
(* The calls.                                                              *)
(***************************************************************************)
Call_cellType ==
    /\ op = "cellType"
    /\ pc = "call"
    /\ \E o \in cellType(args.cell, args.styles, args.customDateFormats, args.na) :
          IF o.fault
          THEN pc' = "fault" /\ UNCHANGED <<ret, Rcout>>
          ELSE pc' = "done" /\ ret' = o.value /\ Rcout' = Rcout \o o.out
    /\ UNCHANGED <<op, args>>

Call_isDateTime ==
    /\ op = "isDateTime"
    /\ pc = "call"
    /\ ret' = isDateTime(args.id, args.custom)
    /\ pc' = "done"
    /\ UNCHANGED <<op, args, Rcout>>

\* Rcpp::stop leaves by an exception: nothing is returned
Call_colTypeStrings ==
    /\ op = "colTypeStrings"
    /\ pc = "call"
    /\ ret' = colTypeStrings(args.x)
    /\ pc' = IF ret'.threw THEN "threw" ELSE "done"
    /\ UNCHANGED <<op, args, Rcout>>

Call_colTypeDesc ==
    /\ op = "colTypeDesc"
    /\ pc = "call"
    /\ ret' = colTypeDesc(args.type)
    /\ pc' = "done"
    /\ UNCHANGED <<op, args, Rcout>>

Call_makeCol ==
    /\ op = "makeCol"
    /\ pc = "call"
    /\ ret' = makeCol(args.type, args.n)
    /\ pc' = "done"
    /\ UNCHANGED <<op, args, Rcout>>

Call_removeSkippedColumns ==
    /\ op = "removeSkippedColumns"
    /\ pc = "call"
    /\ ret' = removeSkippedColumns(args.cols, args.names, args.types)
    /\ pc' = "done"
    /\ UNCHANGED <<op, args, Rcout>>

Next ==
    \/ Call_cellType
    \/ Call_isDateTime
    \/ Call_colTypeStrings
    \/ Call_colTypeDesc
    \/ Call_makeCol
    \/ Call_removeSkippedColumns

Spec == Init /\ [][Next]_vars

(***************************************************************************)
(* Vocabulary of the properties.                                           *)
(***************************************************************************)
Done(f) == op = f /\ pc = "done"

Left(f) == op = f /\ pc # "call"

NumberIds == {189, 515, 638}
FormulaIds == {6, 1030}
BlankIds == {190, 513}

\* the format the cell's style names, when its style index is in the table
HasFormat(a) == ~a.styles.null /\ a.cell.xf < Len(a.styles.xf)
FormatOf(a) == a.styles.xf[a.cell.xf + 1].format

BuiltinDate(f) ==
    f \in (14..22) \cup (27..36) \cup (45..47) \cup (50..58) \cup (71..81)

Vocabulary == {"blank", "date", "numeric", "text", "list", "skip"}

TypeNamed(s) ==
    CASE s = "blank" -> COL_BLANK
      [] s = "date" -> COL_DATE
      [] s = "numeric" -> COL_NUMERIC
      [] s = "text" -> COL_TEXT
      [] s = "list" -> COL_LIST
      [] s = "skip" -> COL_SKIP

\* the indices of types, ascending, whose type is not in dropped
KeptIdx(types, dropped) ==
    SelectSeq([j \in 1..Len(types) |-> j], LAMBDA j : types[j] \notin dropped)

\* equality of two R objects (the storage type decides what the data are)
RObjEq(a, b) == a.sexp = b.sexp /\ a = b

\* out is the (column, name) pairs of a at the indices k, in that order
IsSelection(out, a, k) ==
    /\ Len(out.cols) = Len(k)
    /\ Len(out.names) = Len(k)
    /\ \A i \in 1..Len(k) :
          /\ RObjEq(out.cols[i], a.cols[k[i]])
          /\ out.names[i] = a.names[k[i]]

(***************************************************************************)
(* C1: a numeric-value record (id 189, 515, 638) is Blank when its value   *)
(* matches the NA strings, whatever its style; else Numeric when there is  *)
(* no style table; else Date exactly when isDateTime holds of the format   *)
(* of its style, and Numeric when it does not.                             *)
(***************************************************************************)
C1_NumericRecordPrecedence ==
    (Left("cellType") /\ args.cell.id \in NumberIds) =>
        IF StringSet_containsDouble(args.na, args.cell.d)
        THEN pc = "done" /\ ret = CELL_BLANK
        ELSE IF args.styles.null
             THEN pc = "done" /\ ret = CELL_NUMERIC
             ELSE HasFormat(args) =>
                      /\ pc = "done"
                      /\ ret = IF isDateTime(FormatOf(args), args.customDateFormats)
                               THEN CELL_DATE ELSE CELL_NUMERIC

C1_Witness ==
    /\ Done("cellType")
    /\ args.cell.id = 515
    /\ StringSet_containsDouble(args.na, args.cell.d)
    /\ HasFormat(args)
    /\ FormatOf(args) = 16
    /\ ret = CELL_BLANK

(***************************************************************************)
(* C2: isDateTime(f, C) is true exactly when f is in [14,22], [27,36],     *)
(* [45,47], [50,58] or [71,81], or f >= 164 and f is in C; below 164 the   *)
(* result does not depend on C.                                            *)
(***************************************************************************)
C2_IsDateTimeTable ==
    Left("isDateTime") =>
        /\ pc = "done"
        /\ ret = (\/ BuiltinDate(args.id)
                  \/ (args.id >= 164 /\ args.id \in args.custom))
        /\ args.id < 164 => ret = BuiltinDate(args.id)
        /\ args.id >= 164 => ret = (args.id \in args.custom)

C2_Witness ==
    /\ Done("isDateTime")
    /\ args.id = 163
    /\ args.custom = {0, 163}
    /\ ret = FALSE

(***************************************************************************)
(* C3: colTypeStrings returns the types named, one per string, exactly     *)
(* when every string is one of the six names; otherwise it throws, returns *)
(* no types, and the message names the first string that is none of them   *)
(* and its 1-based position.                                               *)
(***************************************************************************)
C3_ParseOrFailAtFirst ==
    Left("colTypeStrings") =>
        LET x == args.x
            bad == {i \in 1..Len(x) : x[i] \notin Vocabulary}
        IN  IF bad = {}
            THEN /\ pc = "done"
                 /\ ~ret.threw
                 /\ Len(ret.types) = Len(x)
                 /\ \A i \in 1..Len(x) : ret.types[i] = TypeNamed(x[i])
            ELSE LET k == CHOOSE i \in bad : \A j \in bad : i <= j
                 IN  /\ pc = "threw"
                     /\ ret.threw
                     /\ "types" \notin DOMAIN ret
                     /\ ret.what = "Unknown type '" \o x[k] \o "' at position "
                                       \o IntToStr(k)

C3_Witness ==
    /\ op = "colTypeStrings"
    /\ pc = "threw"
    /\ args.x = <<"text", "Text">>
    /\ ret.what = "Unknown type 'Text' at position 2"

(***************************************************************************)
(* C4: colTypeDesc and colTypeStrings are inverses: describing the types   *)
(* parsed gives back the strings, parsing the description of a type gives  *)
(* back the type, and no type is described as "???".                       *)
(***************************************************************************)
C4_DescribeParseInverse ==
    /\ Done("colTypeStrings") =>
          \A i \in 1..Len(args.x) : colTypeDesc(ret.types[i]) = args.x[i]
    /\ Done("colTypeDesc") =>
          /\ ret # "???"
          /\ colTypeStrings(<<ret>>) = [threw |-> FALSE, types |-> <<args.type>>]

C4_Witness ==
    /\ Done("colTypeDesc")
    /\ args.type = COL_SKIP
    /\ ret = "skip"

(***************************************************************************)
(* C5: of the columns makeCol allocated, removeSkippedColumns returns no   *)
(* entry, column or name, for a column of type Blank or Skip.              *)
(***************************************************************************)
C5_BlankAndSkipDropped ==
    Done("removeSkippedColumns") =>
        IsSelection(ret, args, KeptIdx(args.types, {COL_BLANK, COL_SKIP}))

(***************************************************************************)
(* C5, amended: no entry is returned for a column of type Skip, and every  *)
(* column of type Blank is returned, as the absent placeholder under its   *)
(* own name, at its place among the columns that are not Skip.             *)
(***************************************************************************)
C5_SkipDroppedBlankKept ==
    Done("removeSkippedColumns") =>
        LET k == KeptIdx(args.types, {COL_SKIP})
        IN  /\ Len(ret.cols) = Len(k)
            /\ Len(ret.names) = Len(k)
            /\ \A j \in 1..Len(args.types) :
                  args.types[j] = COL_BLANK =>
                      \E i \in 1..Len(k) :
                          /\ k[i] = j
                          /\ ret.cols[i].sexp = "NILSXP"
                          /\ ret.names[i] = args.names[j]

C5_Witness ==
    /\ Done("removeSkippedColumns")
    /\ args.types = <<COL_SKIP, COL_BLANK, COL_TEXT>>
    /\ args.names = <<"a", "b", "a">>
    /\ Len(ret.cols) = 2
    /\ ret.cols[1].sexp = "NILSXP"
    /\ ret.names = <<"b", "a">>

(***************************************************************************)
(* C6: removeSkippedColumns returns the (column, name) pairs whose type is *)
(* not Skip, in their order, each column unchanged and under its own name; *)
(* nothing when every type is Skip, the input when none is.                *)
(***************************************************************************)
C6_NonSkipSubsequence ==
    Done("removeSkippedColumns") =>
        /\ IsSelection(ret, args, KeptIdx(args.types, {COL_SKIP}))
        /\ (\A j \in 1..Len(args.types) : args.types[j] = COL_SKIP) =>
               (ret.cols = <<>> /\ ret.names = <<>>)
        /\ (\A j \in 1..Len(args.types) : args.types[j] # COL_SKIP) =>
               /\ Len(ret.cols) = Len(args.cols)
               /\ \A j \in 1..Len(args.cols) : RObjEq(ret.cols[j], args.cols[j])
               /\ ret.names = args.names

C6_Witness ==
    /\ Done("removeSkippedColumns")
    /\ args.types = <<COL_TEXT, COL_SKIP, COL_NUMERIC>>
    /\ args.names = <<"a", "a", "b">>
    /\ args.n = 2
    /\ Len(ret.cols) = 2
    /\ ret.cols[1].sexp = "STRSXP"
    /\ ret.cols[2].sexp = "REALSXP"
    /\ ret.names = <<"a", "b">>

(***************************************************************************)
(* C7: for a record id that is none of the nine, cellType returns Numeric  *)
(* and writes a diagnostic that names the id; for one of the nine it       *)
(* writes nothing.                                                         *)
(***************************************************************************)
IdText(id) ==
    CASE id = 0 -> "0"
      [] id = 7 -> "7"
      [] id = 514 -> "514"
      [] id = 1031 -> "1031"

C7_UnknownIdFallback ==
    Left("cellType") =>
        IF args.cell.id \notin {253, 516, 6, 1030, 189, 515, 638, 190, 513}
        THEN /\ pc = "done"
             /\ ret = CELL_NUMERIC
             /\ Rcout = "Unknown type: " \o IdText(args.cell.id) \o "\n"
        ELSE Rcout = ""

C7_Witness ==
    /\ Done("cellType")
    /\ args.cell.id = 1031
    /\ ret = CELL_NUMERIC
    /\ Rcout = "Unknown type: 1031\n"

(***************************************************************************)
(* C8: a formula record (id 6, 1030) is typed by its cached result alone:  *)
(* a numeric result is Blank when it matches the NA strings and Numeric    *)
(* otherwise, a string result Blank when it matches and Text otherwise;    *)
(* never Date, whatever the style table and the custom date formats.       *)
(***************************************************************************)
C8_FormulaByCachedResult ==
    (Left("cellType") /\ args.cell.id \in FormulaIds) =>
        /\ pc = "done"
        /\ ret # CELL_DATE
        /\ ret = IF args.cell.l = 0
                 THEN IF StringSet_containsDouble(args.na, args.cell.d)
                      THEN CELL_BLANK ELSE CELL_NUMERIC
                 ELSE IF StringSet_contains(args.na, args.cell.str)
                      THEN CELL_BLANK ELSE CELL_TEXT

C8_Witness ==
    /\ Done("cellType")
    /\ args.cell.id = 1030
    /\ args.cell.l = 0
    /\ args.na = {""}
    /\ HasFormat(args)
    /\ FormatOf(args) = 16
    /\ ret = CELL_NUMERIC

(***************************************************************************)
(* C9: a blank-cell record (id 190, 513) is Blank, whatever the style      *)
(* table, the custom date formats, the NA strings and the payloads.        *)
(***************************************************************************)
C9_BlankRecordIsBlank ==
    (Left("cellType") /\ args.cell.id \in BlankIds) =>
        (pc = "done" /\ ret = CELL_BLANK)

C9_Witness ==
    /\ Done("cellType")
    /\ args.cell.id = 190
    /\ args.na = {}
    /\ args.cell.str = "abc"
    /\ HasFormat(args)
    /\ FormatOf(args) = 16
    /\ ret = CELL_BLANK

(***************************************************************************)
(* C10: makeCol returns, for Date, Numeric, Text and List, n slots each    *)
(* holding the missing value of the type (Date with class POSIXct and time *)
(* zone UTC, a List slot a single logical NA), and for Blank and Skip the  *)
(* absent placeholder, for every n >= 0.                                   *)
(***************************************************************************)
AllSlots(col, n, v) == Len(col.data) = n /\ \A i \in 1..n : col.data[i] = v

C10_MakeColShape ==
    Left("makeCol") =>
        /\ pc = "done"
        /\ CASE args.type \in {COL_BLANK, COL_SKIP} ->
                    ret.sexp = "NILSXP" /\ ret.data = <<>>
             [] args.type = COL_DATE ->
                    /\ ret.sexp = "REALSXP"
                    /\ AllSlots(ret, args.n, NA_REAL)
                    /\ ret.class = <<"POSIXct", "POSIXt">>
                    /\ ret.tzone = <<"UTC">>
             [] args.type = COL_NUMERIC ->
                    /\ ret.sexp = "REALSXP"
                    /\ AllSlots(ret, args.n, NA_REAL)
                    /\ ret.class = <<>>
             [] args.type = COL_TEXT ->
                    /\ ret.sexp = "STRSXP"
                    /\ AllSlots(ret, args.n, NA_STRING)
             [] args.type = COL_LIST ->
                    /\ ret.sexp = "VECSXP"
                    /\ Len(ret.data) = args.n
                    /\ \A i \in 1..args.n :
                          /\ ret.data[i].sexp = "LGLSXP"
                          /\ ret.data[i].data = <<NA_LOGICAL>>

C10_Witness ==
    /\ Done("makeCol")
    /\ args.type = COL_DATE
    /\ args.n = 0
    /\ ret.data = <<>>
    /\ ret.tzone = <<"UTC">>

====
